---------------------------- MODULE Spec2Model ----------------------------
(***************************************************************************)
(* A model of imtk, an immediate-mode layer on top of tkinter.             *)
(*                                                                         *)
(* The state is one ImContext (its identity store, cursor stack,           *)
(* namespace stack, active-identifier signal and refresh engine), the      *)
(* class-level active-context marker, the native widgets the toolkit       *)
(* holds, and the application: a draw callback (a fixed program of         *)
(* declarative calls) and one boolean of application state the callback    *)
(* branches on.                                                            *)
(*                                                                         *)
(* Strings are sequences of one-character strings, so that concatenation   *)
(* (get_identifier) and splitting (_strip_label) are computed.             *)
(***************************************************************************)
EXTENDS Integers, Sequences, FiniteSets, TLC

VARIABLES
    prog,           \* the application's draw callback: a sequence of blocks
    cond,           \* the application state the draw callback branches on
    backend,        \* which factory set install_widgets returned
    widgets,        \* ImContext._widgets: identifier -> ImWidgetState
    native,         \* the toolkit's live widgets: handle -> native widget
    active_widget,  \* ImContext.active_widget
    cursor_stack,   \* ImContext._cursor_stack
    namespaces,     \* ImContext._namespaces
    active_ctx,     \* ImContext.__active__ : "none", "self" or "other"
    refresh_mode,   \* ImContext._refresh_mode
    loop_frequency, \* ImContext.loop_frequency
    after_id,       \* ImContext._after_id
    pending,        \* the toolkit's pending after() timers of this context
    phase,          \* "new", "idle", "draw" or "failed"
    pc,             \* position in the draw callback: <<block, instruction>>
    scopes,         \* the with-blocks the draw callback is inside of
    hist,           \* what the last calls and passes did (observation only)
    idq             \* inputs and result of one get_identifier evaluation

vars == <<prog, cond, backend, widgets, native, active_widget, cursor_stack,
          namespaces, active_ctx, refresh_mode, loop_frequency, after_id, pending, phase, pc,
          scopes, hist, idq>>

-----------------------------------------------------------------------------
(* Bounds of the model *)

\* native widgets alive at once (a pass is started only with room for it)
MaxHandles == 6
\* blocks of a draw callback
MaxBlocks == 2
\* characters of a label or namespace name drawn for get_identifier
MaxStrLen == 2

-----------------------------------------------------------------------------
(* Strings *)

Chars == {"a", ":", "#"}

RECURSIVE Concat(_)
Concat(ss) == IF ss = <<>> THEN <<>> ELSE Head(ss) \o Concat(Tail(ss))

StrOfLen(n) == [1..n -> Chars]

Strings == UNION {StrOfLen(n) : n \in 0..MaxStrLen}

\* "::"
NsSep == <<":", ":">>

\* str.split("#")[0]
RECURSIVE SplitHead(_)
SplitHead(s) ==
    IF s = <<>> THEN <<>>
    ELSE IF Head(s) = "#" THEN <<>>
    ELSE <<Head(s)>> \o SplitHead(Tail(s))

_strip_label(label) == SplitHead(label)


-----------------------------------------------------------------------------
(* Identifiers: ImContext.current_namespace and ImContext.get_identifier *)

\* the empty string when no namespace scope is open, else the innermost name
current_namespace(nss) == IF nss # <<>> THEN nss[Len(nss)] ELSE <<>>

\* get_identifier with a fault: the namespace is left out
get_identifier_unqualified(nss, val) == val

\* f"{self.current_namespace}::{val}" if self.current_namespace else val
get_identifier(nss, val) ==
    IF current_namespace(nss) # <<>>
    THEN current_namespace(nss) \o NsSep \o val
    ELSE val

-----------------------------------------------------------------------------
(* Native widgets (the toolkit, seen through what imtk calls on it) *)

TK_WIDGET_FACTORIES ==
    {"button", "checkbutton", "entry", "label", "scale", "spinbox",
     "scrollbar", "labelframe", "frame"}

TTK_WIDGET_FACTORIES ==
    {"button", "checkbutton", "combobox", "entry", "label", "scale",
     "spinbox", "progressbar", "scrollbar", "labelframe", "frame"}

\* ImContext.install_widgets of the backend in use
install_widgets(b) ==
    IF b = "tk" THEN TK_WIDGET_FACTORIES ELSE TTK_WIDGET_FACTORIES

\* winfo_reqwidth / winfo_reqheight of a widget as the factory builds it
\* (the toolkit decides them; these are fixed representative sizes)
ReqSize(type) ==
    CASE type = "button"      -> <<4, 2>>
      [] type = "checkbutton" -> <<5, 3>>
      [] type = "entry"       -> <<6, 2>>
      [] type = "combobox"    -> <<6, 3>>
      [] type = "label"       -> <<3, 1>>
      [] OTHER                -> <<1, 1>>

\* a native widget: its factory key, requested size, place() position (<<>>
\* while never placed) and the identifier its command or change callback
\* hands to set_active (<<>> when it has none)
NewNative(type, command) ==
    [type |-> type, size |-> ReqSize(type), at |-> <<>>,
     command |-> command]

\* the handle the toolkit gives the next widget it creates
FreshHandle(N) == CHOOSE h \in 1..(3 * MaxHandles) :
    /\ h \notin DOMAIN N
    /\ \A g \in 1..(h - 1) : g \in DOMAIN N

\* N with widget h added / changed
WithNative(N, h, w) == [g \in DOMAIN N \cup {h} |-> IF g = h THEN w ELSE N[g]]

\* widget.destroy()
Destroy(N, hs) == [g \in DOMAIN N \ hs |-> N[g]]

-----------------------------------------------------------------------------
(* ImWidgetState *)

\* ImWidgetState(widget, identifier, custom_data=...): position None, new and
\* drawn True, _active False.  custom_data keeps the change-callback guard
\* ("None" when the widget has no _Callback) and the label settings.
ImWidgetState(widget, identifier, callback) ==
    [widget |-> widget, identifier |-> identifier, position |-> <<>>,
     new |-> TRUE, drawn |-> TRUE, active |-> FALSE,
     callback |-> callback, label_first |-> FALSE, label_text |-> <<>>]

\* ImWidgetState.__bool__
ImWidgetState_bool(info) == info.active

\* W with record r stored under key k
Store(W, k, r) == [j \in DOMAIN W \cup {k} |-> IF j = k THEN r ELSE W[j]]

Max(a, b) == IF a >= b THEN a ELSE b

-----------------------------------------------------------------------------
(* ImCursor and SameRowContext *)

Padding == 5

LabelFrameEndPadding == 15

\* ImCursor.stay_in_row is False, True or a SameRowContext.  It is written as
\* a sequence of tags: <<"F">>, <<"T">>, or <<"C">> \o v for a SameRowContext
\* whose own stay_in_row field holds v.
StayFalse == <<"F">>
StayTrue == <<"T">>

\* SameRowContext(cursor) followed by __enter__: the context keeps the value
\* the cursor held and becomes the cursor's stay_in_row
SameRowContext_enter(stay) == <<"C">> \o stay

IsSameRowContext(stay) == Head(stay) = "C"

\* bool(stay_in_row): "T", "F", or "TypeError" when SameRowContext.__bool__
\* returns something that is not a bool (the context it was built over)
StayTruth(stay) ==
    IF IsSameRowContext(stay)
    THEN (IF Tail(stay) = StayTrue THEN "T"
          ELSE IF Tail(stay) = StayFalse THEN "F"
          ELSE "TypeError")
    ELSE Head(stay)

\* the value of stay_in_row after bool() was taken of it: __bool__ sets the
\* context's own field to True
StayAfterTruth(stay) ==
    IF IsSameRowContext(stay) THEN <<"C">> \o StayTrue ELSE stay

\* ImCursor(): cursor.py 35-45, with the frame the cursor lays out (<<>> for
\* the root cursor, <<info>> for a frame's)
ImCursor ==
    [stay_in_row |-> StayFalse, position |-> <<Padding, Padding>>,
     row_height |-> 0, col_width |-> 0, frame |-> <<>>,
     _frame_end_padding |-> 0]

\* the size with a fault: the height of the current row is left out
CursorSize_pen(c) ==
    <<c.col_width + Padding, c.position[2] + Padding>>

\* ImCursor.size
CursorSize(c) ==
    <<c.col_width + Padding, c.position[2] + c.row_height + Padding>>

\* the pen moved with a fault: no padding is left right of the previous
\* widget of the row
MovePen_tight(c) ==
    IF StayTruth(c.stay_in_row) = "F"
    THEN [c EXCEPT !.position = <<Padding, c.position[2] + c.row_height + Padding>>,
                   !.row_height = 0,
                   !.stay_in_row = StayAfterTruth(c.stay_in_row)]
    ELSE [c EXCEPT !.stay_in_row =
                       IF IsSameRowContext(c.stay_in_row)
                       THEN StayAfterTruth(c.stay_in_row)
                       ELSE StayFalse]

\* the pen moved with a fault: a single-shot stay_in_row is not cleared
MovePen_sticky(c) ==
    IF StayTruth(c.stay_in_row) = "F"
    THEN [c EXCEPT !.position = <<Padding, c.position[2] + c.row_height + Padding>>,
                   !.row_height = 0,
                   !.stay_in_row = StayAfterTruth(c.stay_in_row)]
    ELSE [c EXCEPT !.position = <<c.position[1] + Padding, c.position[2]>>,
                   !.stay_in_row = StayAfterTruth(c.stay_in_row)]

\* the pen moved with a fault: a new row starts without the row height
\* being reset
MovePen_unreset(c) ==
    IF StayTruth(c.stay_in_row) = "F"
    THEN [c EXCEPT !.position = <<Padding, c.position[2] + c.row_height + Padding>>,
                   !.stay_in_row = StayAfterTruth(c.stay_in_row)]
    ELSE [c EXCEPT !.position = <<c.position[1] + Padding, c.position[2]>>,
                   !.stay_in_row =
                       IF IsSameRowContext(c.stay_in_row)
                       THEN StayAfterTruth(c.stay_in_row)
                       ELSE StayFalse]

\* the cursor after the pen was moved for the next widget: cursor.py 82-89
MovePen(c) ==
    IF StayTruth(c.stay_in_row) = "F"
    THEN [c EXCEPT !.position = <<Padding, c.position[2] + c.row_height + Padding>>,
                   !.row_height = 0,
                   !.stay_in_row = StayAfterTruth(c.stay_in_row)]
    ELSE [c EXCEPT !.position = <<c.position[1] + Padding, c.position[2]>>,
                   !.stay_in_row =
                       IF IsSameRowContext(c.stay_in_row)
                       THEN StayAfterTruth(c.stay_in_row)
                       ELSE StayFalse]

-----------------------------------------------------------------------------
(* The context during a draw.                                              *)
(*                                                                         *)
(* The declarative functions work on a record S of the context's state:    *)
(*   widgets, native, cursor_stack, namespaces, active_widget, backend,    *)
(*   err ("None" or the exception raised), ret (the interaction flag the   *)
(*   call returned), and what the pass has done so far: created (handles   *)
(*   of the native widgets made) and declared (identifier and handle of    *)
(*   every record a declarative call ran for) and events (the placements   *)
(*   and row calls of the pass, in order).  A function applied to an S     *)
(*   whose err is set leaves it as it is: the exception is propagating.    *)

\* context.cursor
TopCursor(S) == S.cursor_stack[Len(S.cursor_stack)]

\* the test of cursor.py 96 with a fault: place() is issued every time
ShouldPlace_always(was, pen) == TRUE

\* `if info.position != self.position` (cursor.py 96): was is the record's
\* last-known position, <<>> for None
ShouldPlace(was, pen) == was # pen

\* cursor.py 91-105, on the cursor whose pen was already moved: the record is
\* stored if new, the native widget placed if its position changed (the
\* placement observed last is marked when place() is issued), and the row
\* height, pen and column width are updated
PlaceAtPen(S, info) ==
    [S EXCEPT
        !.widgets =
            Store(S.widgets, info.identifier,
                  [info EXCEPT !.new = FALSE, !.drawn = TRUE,
                               !.position = TopCursor(S).position]),
        !.native[info.widget].at =
            IF ShouldPlace(info.position, TopCursor(S).position)
            THEN TopCursor(S).position ELSE @,
        !.events[Len(S.events)].issued =
            ShouldPlace(info.position, TopCursor(S).position),
        !.cursor_stack[Len(S.cursor_stack)] =
            [@ EXCEPT
                !.row_height = Max(@, S.native[info.widget].size[2]),
                !.position = <<@[1] + S.native[info.widget].size[1], @[2]>>,
                !.col_width = Max(@, TopCursor(S).position[1]
                                        + S.native[info.widget].size[1])]]

\* what is observed of a placement: the record, its last-known position,
\* where the pen stands for it (S has the pen already moved), the native
\* widget's requested size, whether the pen stayed in the row, and whether
\* place() was issued
Placement(S, info, stayed) ==
    [ev |-> "place", identifier |-> info.identifier, was |-> info.position,
     at |-> TopCursor(S).position, size |-> S.native[info.widget].size,
     stayed |-> stayed, depth |-> Len(S.cursor_stack), issued |-> FALSE]

\* S with one more event observed
Noted(S, e) == [S EXCEPT !.events = Append(@, e)]

\* cursor.py 82-89 on the context's cursor, observed
pen_moved(S, info) ==
    Noted([S EXCEPT !.cursor_stack[Len(S.cursor_stack)] = MovePen(@)],
          Placement([S EXCEPT !.cursor_stack[Len(S.cursor_stack)] = MovePen(@)],
                    info, StayTruth(TopCursor(S).stay_in_row) = "T"))

\* context.cursor.add_widget(info, context).  err = "TypeError" when
\* `not self.stay_in_row` raised (then only the SameRowContext's own field
\* has changed).
add_widget(S, info) ==
    IF S.err # "None" THEN S
    ELSE IF StayTruth(TopCursor(S).stay_in_row) = "TypeError"
    THEN [S EXCEPT !.err = "TypeError",
                   !.cursor_stack[Len(S.cursor_stack)].stay_in_row =
                       StayAfterTruth(@)]
    ELSE PlaceAtPen(pen_moved(S, info), info)

\* create_widget with a fault: a factory is found whatever the backend
create_widget_unchecked(S, type, command) ==
    IF S.err # "None" THEN S
    ELSE [S EXCEPT !.native =
             WithNative(S.native, FreshHandle(S.native), NewNative(type, command)),
                   !.created = @ \cup {FreshHandle(S.native)}]

\* ImContext.create_widget: RuntimeError when the backend has no such factory
create_widget(S, type, command) ==
    IF S.err # "None" THEN S
    ELSE IF type \notin install_widgets(S.backend)
    THEN [S EXCEPT !.err = "RuntimeError"]
    ELSE [S EXCEPT !.native =
             WithNative(S.native, FreshHandle(S.native), NewNative(type, command)),
                   !.created = @ \cup {FreshHandle(S.native)}]

\* context._widgets.get(idx): S itself when there is a record, else S after
\* create_widget
Lookup(S, idx, type, command) ==
    IF idx \in DOMAIN S.widgets THEN S ELSE create_widget(S, type, command)

\* the record a declarative function works on: the stored one, or a new
\* ImWidgetState around the widget create_widget is about to return
RecordOf(S, idx, callback) ==
    IF idx \in DOMAIN S.widgets THEN S.widgets[idx]
    ELSE ImWidgetState(FreshHandle(S.native), idx, callback)

-----------------------------------------------------------------------------
(* The declarative widget functions of functional.py *)

\* the tail of imtk_widget's wrapper: info._active = context.active_widget ==
\* info.identifier, and the flag the call returns
SetActiveFlag(S, idx) ==
    IF S.err # "None" THEN S
    ELSE [S EXCEPT !.widgets[idx].active = (S.active_widget = <<idx>>),
                   !.ret = (S.active_widget = <<idx>>),
                   !.declared = @ \cup {<<idx, S.widgets[idx].widget>>}]

\* text() once its identifier is computed: look up or create the label, draw
\* it by the default draw function, set the flag
text_as(S, idx) ==
    SetActiveFlag(add_widget(Lookup(S, idx, "label", <<>>),
                             RecordOf(S, idx, "None")),
                  idx)

\* text(text, identifier)
text(S, txt, identifier) ==
    IF S.err # "None" THEN S
    ELSE text_as(S, get_identifier(S.namespaces,
                                   IF identifier # <<>> THEN identifier ELSE txt))

ValidLabelPositions == {"right", "left", "r", "l", "west", "w", "east", "e"}

LabelFirst(label_position) == label_position \in {"left", "west", "l", "w"}

\* the factory a declarative function asks create_widget for
FactoryOf(kind) ==
    CASE kind = "button"     -> "button"
      [] kind = "checkbox"   -> "checkbutton"
      [] kind = "input_text" -> "entry"
      [] kind = "combo_box"  -> "combobox"
      [] kind \in {"input_int", "input_float"}  -> "spinbox"
      [] kind \in {"float_slider", "int_slider"} -> "scale"

\* the identifier the widget's native callback hands to set_active:
\* button: idx; checkbox: the label as given; the others: info.identifier
CommandOf(kind, label, idx) ==
    IF kind = "checkbox" THEN label ELSE idx

\* the stateful input kinds: the application hands each call the value to show
InputKinds ==
    {"input_text", "input_int", "input_float", "float_slider", "int_slider",
     "combo_box"}

\* the kinds whose change notification goes through a _Callback guard
HasCallback(kind) == kind \in InputKinds

\* the kinds that check label_position on entry
ValidatesLabelPosition(kind) == kind \in InputKinds \ {"combo_box"}

\* the kinds drawn by _draw_widget_with_label
DrawnWithLabel(kind) == kind \in InputKinds

\* f"{info.identifier}#label"
LabelIdentifier(info) == info.identifier \o <<"#", "l", "a", "b", "e", "l">>

\* context.cursor.same_row(): self.stay_in_row = True
same_row(S) ==
    [S EXCEPT !.cursor_stack[Len(S.cursor_stack)].stay_in_row = StayTrue]

\* `with context.cursor.row():` is entered: SameRowContext over the cursor
row_enter(S) ==
    [S EXCEPT !.cursor_stack[Len(S.cursor_stack)].stay_in_row =
                  SameRowContext_enter(@)]

\* SameRowContext.__exit__: the cursor's stay_in_row is set to False, also
\* when the body raised
row_exit(S) ==
    [S EXCEPT !.cursor_stack[Len(S.cursor_stack)].stay_in_row = StayFalse]

\* functional.py 70-71: the label when it comes first
label_before(S, info) ==
    IF info.label_text # <<>> /\ info.label_first
    THEN text(S, info.label_text, LabelIdentifier(info))
    ELSE S

\* functional.py 75-76: the label when it comes after the widget
label_after(S, info) ==
    IF ~info.label_first /\ info.label_text # <<>>
    THEN text(S, _strip_label(info.label_text), LabelIdentifier(info))
    ELSE S

\* _draw_widget_with_label(info, context): a row scope holding the label (when
\* there is one and it comes first), the widget, and the label otherwise
_draw_widget_with_label(S, info) ==
    row_exit(label_after(add_widget(label_before(row_enter(S), info), info),
                         info))

\* the guard with a fault: it is left on while the value is written
GuardWhileWriting_on == "on"

\* the state of a stateful widget's _Callback guard while the application's
\* value is written into it (functional.py 268, 319, 483, 658: switched off
\* before the write)
GuardWhileWriting == "off"

\* the guarded write of the application's value into a stateful widget
\* (functional.py 267-270, 318-321, 482-485, 657-660): the guard is switched
\* off, the value is set (the variable's trace runs the _Callback, which
\* calls set_active only with its guard on), and the guard is switched on
\* again.  set_active inside a draw only records the identifier: the refresh
\* it asks for returns at once.
GuardedWrite(S, info) ==
    IF S.active_widget = <<info.identifier>> \/ info.callback = "None" THEN S
    ELSE IF GuardWhileWriting = "on"
         THEN [S EXCEPT !.active_widget = <<info.identifier>>]
         ELSE S

\* the guard with a fault: it is not switched on again after the write
GuardAfterWriting_off == "off"

\* the state of the _Callback guard after the write (functional.py 270, 321,
\* 485, 660: switched on again)
GuardAfterWriting == "on"

\* the record after the guarded write: the guard is touched only when the
\* value is written (the widget has a _Callback and is not the active one)
Written(S, info) ==
    IF S.active_widget = <<info.identifier>> \/ info.callback = "None" THEN info
    ELSE [info EXCEPT !.callback = GuardAfterWriting]

\* the record with the label settings a labelled kind writes into custom_data
WithLabelSettings(info, kind, label, label_position) ==
    IF DrawnWithLabel(kind)
    THEN [info EXCEPT !.label_first = LabelFirst(label_position),
                      !.label_text = _strip_label(label)]
    ELSE info

\* a declarative call once the record is there: the guarded write, then the
\* wrapper draws the record and sets the flag
declare_with(S, kind, info) ==
    IF S.err # "None" THEN S
    ELSE SetActiveFlag(
            IF DrawnWithLabel(kind)
            THEN _draw_widget_with_label(GuardedWrite(S, info), Written(S, info))
            ELSE add_widget(GuardedWrite(S, info), Written(S, info)),
            info.identifier)

\* a declarative call once its identifier is computed
declare_as(S, kind, label, label_position, idx) ==
    declare_with(
        Lookup(S, idx, FactoryOf(kind), CommandOf(kind, label, idx)),
        kind,
        WithLabelSettings(
            RecordOf(S, idx, IF HasCallback(kind) THEN "on" ELSE "None"),
            kind, label, label_position))

\* one declarative call: button, checkbox or one of the input kinds
Declare(S, kind, label, label_position) ==
    IF ValidatesLabelPosition(kind) /\ label_position \notin ValidLabelPositions
    THEN [S EXCEPT !.err = "ValueError"]
    ELSE declare_as(S, kind, label, label_position,
                    get_identifier(S.namespaces, label))

-----------------------------------------------------------------------------
(* Cursor stack, namespaces and frames: base.py 357-398, frames.py,        *)
(* ImCursor.__exit__                                                       *)

\* ImContext.push_cursor(): a fresh cursor on top of the stack
push_cursor(S, c) == [S EXCEPT !.cursor_stack = Append(@, c)]

\* ImContext.pop_cursor() on a non-empty stack
pop_cursor(S) ==
    [S EXCEPT !.cursor_stack = SubSeq(@, 1, Len(@) - 1)]

namespace_push(S, name) == [S EXCEPT !.namespaces = Append(@, name)]

\* ImContext.namespace_pop(): list.pop(), IndexError on an empty stack
namespace_pop(S) ==
    IF S.namespaces = <<>> THEN [S EXCEPT !.err = "IndexError"]
    ELSE [S EXCEPT !.namespaces = SubSeq(@, 1, Len(@) - 1)]

\* ImNamespace.__exit__ with a fault: the name popped is not compared
ImNamespace_exit_unchecked(S, name) == namespace_pop(S)

\* ImNamespace.__exit__: the namespace is popped; RuntimeError when the one
\* popped is not the one the block pushed
ImNamespace_exit(S, name) ==
    IF S.namespaces # <<>> /\ current_namespace(S.namespaces) # name
    THEN [namespace_pop(S) EXCEPT !.err = "RuntimeError"]
    ELSE namespace_pop(S)

\* frames.py 50-53 and 96-100: a cursor bound to the frame's record is pushed
frame_push(S, kind, info) ==
    IF S.err # "None" THEN S
    ELSE [push_cursor(S, [ImCursor EXCEPT
                             !.frame = <<info>>,
                             !._frame_end_padding =
                                 IF kind = "labelframe"
                                 THEN LabelFrameEndPadding ELSE 0])
            EXCEPT !.declared = @ \cup {<<info.identifier, info.widget>>}]

\* frame() and labelframe() once the identifier is computed
frame_as(S, kind, idx) ==
    frame_push(Lookup(S, idx, kind, <<>>), kind, RecordOf(S, idx, "None"))

\* frame(identifier) and labelframe(label): look the record up or create the
\* native frame, then push a cursor bound to the record
frame(S, kind, label) == frame_as(S, kind, get_identifier(S.namespaces, label))

\* the record a frame cursor is bound to, as it is now
FrameRecord(S, c) ==
    IF c.frame[1].identifier \in DOMAIN S.widgets
       /\ S.widgets[c.frame[1].identifier].widget = c.frame[1].widget
    THEN S.widgets[c.frame[1].identifier] ELSE c.frame[1]

\* frame.widget.configure(width=w, height=h + self._frame_end_padding)
frame_configure(S, c) ==
    [S EXCEPT !.native[c.frame[1].widget].size =
                  <<CursorSize(c)[1], CursorSize(c)[2] + c._frame_end_padding>>]

\* cursor.py 57-64, for the popped cursor c: when the cursor has a parent and
\* its frame record is truthy, resize the native frame to the cursor's extent
\* and place the record into the parent cursor
place_frame(S, c) ==
    IF S.cursor_stack # <<>> /\ c.frame # <<>>
       /\ ImWidgetState_bool(FrameRecord(S, c))
    THEN add_widget(frame_configure(S, c), FrameRecord(S, c))
    ELSE S

\* ImCursor.__exit__ of a frame's cursor
ImCursor_exit(S) == place_frame(pop_cursor(S), TopCursor(S))

-----------------------------------------------------------------------------
(* The application: draw callbacks *)

\* A draw callback is a sequence of blocks.  A block is guarded by the
\* application state (always, or only while cond holds: `if self.cond:`) and
\* holds instructions: a declarative call, the entry or exit of a
\* `with namespace(..)`, `with frame(..)` or `with row():` block, or a call
\* of same_row() or of refresh().
\* An instruction with toggles = TRUE is `if widget(..): self.cond = not
\* self.cond`.
Instr(op, kind, label, lp, toggles) ==
    [op |-> op, kind |-> kind, label |-> label, label_position |-> lp,
     toggles |-> toggles]

LabelOf(kind) ==
    CASE kind = "button"     -> <<"b">>
      [] kind = "checkbox"   -> <<"c">>
      [] kind = "input_text" -> <<"i">>
      [] kind = "combo_box"  -> <<"x">>
      [] kind = "input_int"    -> <<"j">>
      [] kind = "input_float"  -> <<"k">>
      [] kind = "float_slider" -> <<"s">>
      [] kind = "int_slider"   -> <<"t">>
      [] kind = "frame"      -> <<"f">>
      [] kind = "labelframe" -> <<"g">>

NsName == <<"n">>

\* the name the callback pushes with a bare namespace_push
OtherName == <<"m">>

Call(kind) == Instr("widget", kind, LabelOf(kind), "right", kind = "button")

WidgetKinds == {"button", "checkbox", "input_text", "combo_box"}

FrameKinds == {"frame", "labelframe"}

NsEnter == Instr("ns_enter", "", NsName, "", FALSE)
NsExit == Instr("ns_exit", "", NsName, "", FALSE)
Framed(f, body) ==
    <<Instr("frame_enter", f, LabelOf(f), "", FALSE)>> \o body
        \o <<Instr("frame_exit", f, LabelOf(f), "", FALSE)>>

\* the blocks a callback is made of: each widget kind at top level, a button
\* and a checkbox inside a namespace scope, a button inside a frame and a
\* labelframe, an input_text with a label_position that is not valid, and a
\* call of refresh(); an input_text, a frame and the input_text that is not
\* valid also under `if self.cond:`
Bodies ==
    {<<Call(k)>> : k \in WidgetKinds}
    \cup {<<NsEnter, Call(k), NsExit>> : k \in {"button", "checkbox"}}
    \cup {Framed(f, <<Call("button")>>) : f \in FrameKinds}
    \cup {<<Instr("widget", "input_text", LabelOf("input_text"), "top", FALSE)>>}
    \cup {<<Instr("refresh", "", <<>>, "", FALSE)>>}

CondBodies ==
    {<<Call("input_text")>>, Framed("frame", <<Call("button")>>),
     <<Instr("widget", "input_text", LabelOf("input_text"), "top", FALSE)>>}

Blocks == [guard : {"always"}, ops : Bodies] \cup [guard : {"if"}, ops : CondBodies]

Programs == UNION {[1..n -> Blocks] : n \in 1..MaxBlocks}

\* whether the callback enters block b in application state c
Enters(p, b, c) == p[b].guard = "always" \/ c

\* the first block from b on that the callback enters, Len(p) + 1 if none
RECURSIVE FirstBlock(_, _, _)
FirstBlock(p, b, c) ==
    IF b > Len(p) THEN b
    ELSE IF Enters(p, b, c) THEN b
    ELSE FirstBlock(p, b + 1, c)

\* the position after instruction <<b, i>>
Advance(p, at, c) ==
    IF at[2] < Len(p[at[1]].ops) THEN <<at[1], at[2] + 1>>
    ELSE <<FirstBlock(p, at[1] + 1, c), 1>>

AtEnd(p, at) == at[1] > Len(p)

\* an upper bound on the native widgets one pass of p creates
RECURSIVE Creates(_)
Creates(ops) ==
    IF ops = <<>> THEN 0
    ELSE (IF Head(ops).op \in {"frame_enter", "frame_call"} THEN 1
          ELSE IF Head(ops).op = "widget"
               THEN (IF DrawnWithLabel(Head(ops).kind) THEN 2 ELSE 1)
          ELSE 0) + Creates(Tail(ops))

ProgCreates(p) == Creates(Concat([b \in 1..Len(p) |-> p[b].ops]))

\* whether the callback branches on the application state
ReadsCond(p) == \E b \in 1..Len(p) : p[b].guard = "if"

\* whether the callback asks for a widget kind that only some backends have
NeedsTtk(p) ==
    \E b \in 1..Len(p) : \E i \in 1..Len(p[b].ops) :
        p[b].ops[i].op = "widget"
        /\ FactoryOf(p[b].ops[i].kind) \notin TK_WIDGET_FACTORIES

-----------------------------------------------------------------------------
(* ImContext: construction and refresh *)

\* the handle of ImContext._content_frame (built by the constructor, never
\* destroyed; refresh resizes it to the root cursor's extent)
ContentFrame == 0

\* pending after() timers a context may have when one more refresh is asked for
MaxTimers == 2
\* the longest callback made of row calls, row scopes and widgets
MaxOps == 6

\* the default of the constructor's loop_frequency (base.py 79)
DefaultFrequency == 50

\* False, the loop_frequency the constructor hands to set_refresh_engine
\* (base.py 115): as a number, and as a delay of after(), it is 0
PyFalse == 0

\* the loop frequencies an application asks for
Frequencies == {30, DefaultFrequency}

\* a loop_frequency argument: <<>> for None, else <<value>>
FrequencyArgs == {<<>>} \cup {<<f>> : f \in Frequencies}

\* the identifier tk gives the next after() call
FreshTimer(P, aid) == CHOOSE t \in 1..(MaxTimers + 2) :
    /\ t \notin P /\ <<t>> # aid
    /\ \A u \in 1..(t - 1) : u \in P \/ <<u>> = aid

\* what is observed of a record by a snapshot of the identity store
Flags(info) == [widget |-> info.widget, new |-> info.new, drawn |-> info.drawn]

Snapshot(W) == [k \in DOMAIN W |-> Flags(W[k])]

\* what hist keeps of a completed pass
NoPass ==
    [declared |-> {}, created |-> {}, destroyed |-> {}, start_cond |-> FALSE,
     end_cond |-> FALSE, store |-> <<>>, events |-> <<>>, valid |-> FALSE]

\* hist one step later: what is kept only for the state right after a frame
\* exit, a pass end or a re-entrant call of refresh() is dropped
Quiet(h) ==
    [h EXCEPT !.exited = <<>>, !.at_pass_end = FALSE, !.before = NoPass,
              !.reentrant = FALSE, !.asked = <<>>]

\* hist at the start of a refresh pass
BeginPass(h, kind, W, c) ==
    [h EXCEPT !.outcome = "running", !.kind = kind,
              !.passes = IF @ < 3 THEN @ + 1 ELSE @,
              !.declared = {}, !.created = {}, !.events = <<>>,
              !.start_store = Snapshot(W), !.start_cond = c,
              !.ret_trigger = "none", !.any_ret = FALSE]

\* hist at the start of a call made from outside a refresh
BeginCall(entry, trigger) ==
    [Quiet(hist) EXCEPT !.entry = entry, !.trigger = trigger, !.passes = 0,
                        !.reentrant = (active_ctx # "none")]

\* hist when the call made from outside a refresh is over
EndCall(h) ==
    [h EXCEPT !.entry = "none", !.trigger = <<>>, !.kind = "plain",
              !.passes = 0, !.ret_trigger = "none", !.any_ret = FALSE,
              !.start_store = <<>>, !.start_cond = FALSE,
              !.declared = {}, !.created = {}, !.events = <<>>,
              !.overwritten = <<>>]

\* refresh() with a fault: the test of the active-context marker is missing
RefreshGuard_missing(actx) == FALSE

\* `if ImContext.__active__: return` (base.py 302)
RefreshGuard(actx) == actx # "none"

\* how a call of refresh() starts: it returns at once ("skipped"), raises on a
\* non-empty cursor stack ("raised"), raises in __enter__ after pushing the
\* root cursor ("raised_enter"), or runs a pass ("run")
refresh_entry(actx, stack) ==
    IF RefreshGuard(actx) THEN "skipped"
    ELSE IF stack # <<>> THEN "raised"
    ELSE IF actx # "none" THEN "raised_enter"
    ELSE "run"

\* the part of refresh() up to the call of draw(), for a call made with
\* active-identifier signal aw; h is hist as the caller left it
EnterRefresh(aw, h, kind) ==
    LET how == refresh_entry(active_ctx, cursor_stack)
    IN  /\ active_widget' = aw
        /\ cursor_stack' =
              IF how \in {"run", "raised_enter"} THEN <<ImCursor>> ELSE cursor_stack
        /\ active_ctx' = IF how = "run" THEN "self" ELSE active_ctx
        /\ phase' = IF how = "run" THEN "draw"
                    ELSE IF phase = "new" THEN "idle" ELSE phase
        /\ pc' = IF how = "run" THEN <<FirstBlock(prog, 1, cond), 1>> ELSE pc
        /\ hist' = IF how = "run" THEN BeginPass(h, kind, widgets, cond)
                   ELSE [EndCall(h) EXCEPT !.outcome =
                            IF how = "skipped" THEN "skipped" ELSE "raised"]
        /\ UNCHANGED <<prog, cond, backend, widgets, native, namespaces,
                       scopes, idq>>

\* a pass may be asked for only while the toolkit has room for the widgets
\* the pass may create: no more than the callback's calls that find no record
Room ==
    Cardinality(DOMAIN native) - 1 + ProgCreates(prog)
        - Cardinality(DOMAIN widgets) <= MaxHandles

\* ImContext.set_refresh_engine(method, loop_frequency), method 'callback' or
\* 'loop', on a context whose loop_frequency is current; h is hist as the
\* caller left it
set_refresh_engine(method, lf, current, h) ==
    /\ Room
    /\ refresh_mode' = method
    /\ pending' = IF after_id # <<>> THEN pending \ {after_id[1]} ELSE pending
    /\ after_id' = after_id
    /\ loop_frequency' = IF method = "loop" /\ lf # <<>> THEN lf[1] ELSE current
    /\ EnterRefresh(active_widget, h, "plain")

\* ImContext.set_refresh_engine(n, loop_frequency) with an integer n (base.py
\* 242-249): ValueError at once when loop_frequency is given; else
\* self.loop_frequency = n and self.method = 'loop' are assigned, and the
\* test of method, still the integer, raises ValueError.  The value is the
\* loop_frequency the call leaves.
set_refresh_engine_int(n, lf, current) == IF lf # <<>> THEN current ELSE n


-----------------------------------------------------------------------------
(* The draw callback, one instruction at a time *)

\* where an exception that leaves refresh() leaves the context: one that
\* leaves the constructor leaves no context behind ("failed"), any other
\* goes to the caller and the context lives on
AfterRaise(entry) == IF entry = "init" THEN "failed" ELSE "idle"

\* the context's state as a declarative call finds it
Ctx ==
    [widgets |-> widgets, native |-> native, cursor_stack |-> cursor_stack,
     namespaces |-> namespaces, active_widget |-> active_widget,
     backend |-> backend, err |-> "None", ret |-> FALSE,
     created |-> hist.created, declared |-> hist.declared,
     events |-> hist.events]

Here == prog[pc[1]].ops[pc[2]]

Drawing(op) == phase = "draw" /\ ~AtEnd(prog, pc) /\ Here.op = op

\* the exception that leaves a with-block: the one its exit raised, else the
\* one that was propagating
KeepErr(S, err) == [S EXCEPT !.err = IF @ = "None" THEN err ELSE @]

\* the exits of the with-blocks the callback is inside of, innermost first,
\* as an exception leaves them: ImNamespace.__exit__ pops the namespace,
\* SameRowContext.__exit__ resets the cursor's stay_in_row,
\* ImCursor.__exit__ pops the frame's cursor (and places a truthy frame)
\* the same with a fault: the with-blocks are left without their exits
Unwind_skipped(S, sc) == S

RECURSIVE Unwind(_, _)
Unwind(S, sc) ==
    IF sc = <<>> THEN S
    ELSE Unwind(KeepErr(IF sc[Len(sc)] = "ns"
                        THEN ImNamespace_exit([S EXCEPT !.err = "None"], NsName)
                        ELSE IF sc[Len(sc)] = "row" THEN row_exit(S)
                        ELSE ImCursor_exit([S EXCEPT !.err = "None"]),
                        S.err),
                SubSeq(sc, 1, Len(sc) - 1))

\* whether the call that just ran was the declarative call of the widget the
\* user acted on, and what it returned
RetTrigger(S, was) ==
    IF Here.op = "widget"
       /\ hist.trigger = <<S.widgets[get_identifier(namespaces, Here.label)].widget>>
    THEN (IF S.ret THEN "true" ELSE "false")
    ELSE was

\* the instruction at pc ran and left the context as S, inside with-blocks sc
Ran(S, sc, h) ==
    /\ widgets' = S.widgets
    /\ native' = S.native
    /\ cursor_stack' = S.cursor_stack
    /\ namespaces' = S.namespaces
    /\ active_widget' = S.active_widget
    /\ cond' = IF Here.toggles /\ S.ret THEN ~cond ELSE cond
    /\ pc' = Advance(prog, pc, cond')
    /\ scopes' = sc
    /\ hist' = [h EXCEPT !.created = S.created, !.declared = S.declared,
                         !.events = S.events,
                         !.any_ret = @ \/ S.ret,
                         !.ret_trigger = RetTrigger(S, @)]
    /\ UNCHANGED <<prog, backend, active_ctx, refresh_mode, loop_frequency, after_id, pending,
                   phase, idq>>

\* an exception leaves draw() from inside with-blocks sc, with the context as
\* U once they are left: `with self` clears the
\* active-context marker and the exception leaves refresh() (nothing after
\* the call of draw() runs)
Leave(U, sc) ==
    /\ widgets' = U.widgets
    /\ native' = U.native
    /\ cursor_stack' = U.cursor_stack
    /\ namespaces' = U.namespaces
    /\ active_widget' = U.active_widget
    /\ active_ctx' = "none"
    /\ phase' = AfterRaise(hist.entry)
    /\ pc' = <<0, 0>>
    /\ scopes' = <<>>
    /\ hist' = [EndCall(Quiet(hist)) EXCEPT
                    !.outcome = "aborted", !.error = U.err,
                    !.aborted = [start_store |-> hist.start_store,
                                 declared |-> U.declared,
                                 scopes |-> sc]]
    /\ UNCHANGED <<prog, cond, backend, refresh_mode, loop_frequency, after_id, pending, idq>>

\* the instruction at pc raised, leaving the context as S inside with-blocks
\* sc: the with-blocks are left, innermost first
Raised(S, sc) == Leave(Unwind(S, sc), sc)

\* the instruction at pc left the context as S: it raised inside with-blocks
\* sc_raised, or it ran and the callback goes on inside with-blocks sc
Done(S, sc_raised, sc, h) ==
    IF S.err # "None" THEN Raised(S, sc_raised) ELSE Ran(S, sc, h)

\* a declarative call for a widget
DeclareWidget ==
    /\ Drawing("widget")
    /\ Done(Declare(Ctx, Here.kind, Here.label, Here.label_position),
            scopes, scopes, Quiet(hist))

\* `with namespace(name):` is entered
NamespaceEnter ==
    /\ Drawing("ns_enter")
    /\ Ran(namespace_push(Ctx, Here.label), Append(scopes, "ns"),
           Quiet(hist))

\* `with namespace(name):` is left
NamespaceExit ==
    /\ Drawing("ns_exit")
    /\ Done(ImNamespace_exit(Ctx, Here.label),
            SubSeq(scopes, 1, Len(scopes) - 1),
            SubSeq(scopes, 1, Len(scopes) - 1), Quiet(hist))

\* context.namespace_push(name), called by the callback itself
NamespacePush ==
    /\ Drawing("ns_push")
    /\ Ran(namespace_push(Ctx, Here.label), scopes, Quiet(hist))

\* context.namespace_pop(), called by the callback itself
NamespacePop ==
    /\ Drawing("ns_pop")
    /\ Done(namespace_pop(Ctx), scopes, scopes, Quiet(hist))

\* `with frame(identifier):` or `with labelframe(label):` is entered
FrameEnter ==
    /\ Drawing("frame_enter")
    /\ Done(frame(Ctx, Here.kind, Here.label),
            scopes, Append(scopes, "frame"), Quiet(hist))

\* frame(identifier) or labelframe(label) called without `with`: the cursor
\* it pushed stays on the stack
FrameCall ==
    /\ Drawing("frame_call")
    /\ Done(frame(Ctx, Here.kind, Here.label), scopes, scopes, Quiet(hist))

\* what is observed of a frame's cursor c when its with-block is left: the
\* record it is bound to, its extent, and the pen of the parent cursor
Exited(c, parent) ==
    [identifier |-> c.frame[1].identifier, widget |-> c.frame[1].widget,
     extent |-> CursorSize(c), end_padding |-> c._frame_end_padding,
     pen |-> parent.position]

\* the frame's with-block is left: ImCursor.__exit__
FrameExit ==
    /\ Drawing("frame_exit")
    /\ Done(ImCursor_exit(Ctx),
            SubSeq(scopes, 1, Len(scopes) - 1),
            SubSeq(scopes, 1, Len(scopes) - 1),
            [Quiet(hist) EXCEPT !.exited =
                <<Exited(cursor_stack[Len(cursor_stack)],
                         cursor_stack[Len(cursor_stack) - 1])>>])

\* same_row() (layout.py 12-26)
SameRow ==
    /\ Drawing("same_row")
    /\ Ran(same_row(Noted(Ctx, [ev |-> "same_row"])), scopes, Quiet(hist))

\* `with row():` is entered (layout.py 29-50)
RowEnter ==
    /\ Drawing("row_enter")
    /\ Ran(row_enter(Noted(Ctx, [ev |-> "row_enter"])),
           Append(scopes, "row"), Quiet(hist))

\* `with row():` is left
RowExit ==
    /\ Drawing("row_exit")
    /\ Ran(row_exit(Noted(Ctx, [ev |-> "row_exit"])),
           SubSeq(scopes, 1, Len(scopes) - 1), Quiet(hist))

\* the draw callback calls refresh() itself
NestedRefresh ==
    /\ Drawing("refresh")
    /\ IF refresh_entry(active_ctx, cursor_stack) = "skipped"
       THEN Ran(Ctx, scopes, [Quiet(hist) EXCEPT !.reentrant = TRUE,
                                                 !.outcome = "skipped"])
       ELSE Raised([Ctx EXCEPT !.err = "RuntimeError",
                               !.cursor_stack =
                                   IF refresh_entry(active_ctx, cursor_stack)
                                        = "raised_enter"
                                   THEN Append(@, ImCursor) ELSE @],
                   scopes)

-----------------------------------------------------------------------------
(* The rest of refresh(), after draw() returned: base.py 312-348 *)

\* the keys of the records the sweep evicts
widgets_to_remove(W) == {k \in DOMAIN W : ~W[k].drawn}

\* refresh() with a fault: the signal is not cleared before the corrective pass
ClearSignal_keeps(aw) == aw

\* self.active_widget = None (base.py 340)
ClearSignal(aw) == <<>>

\* the reset with a fault: the record keeps its drawn flag
ResetDrawn_kept(info) == info

\* `info.drawn = False` for a surviving record (base.py 336-337)
ResetDrawn(info) == [info EXCEPT !.drawn = FALSE]

\* the test of base.py 313 with a fault: the stack is not looked at
StackCorrupted_unchecked(stack) == FALSE

\* `if self._cursor_stack:` after the root cursor was popped (base.py 313)
StackCorrupted(stack) == stack # <<>>

\* should_recurse (base.py 339)
should_recurse(aw, mode) == aw # <<>> /\ mode = "callback"

DrawReturn ==
    /\ phase = "draw"
    /\ AtEnd(prog, pc)
    /\ LET stack == SubSeq(cursor_stack, 1, Len(cursor_stack) - 1)
           base  == cursor_stack[1]
           gone  == widgets_to_remove(widgets)
           W1    == [k \in DOMAIN widgets \ gone |-> ResetDrawn(widgets[k])]
           dead  == {widgets[k].widget : k \in gone}
           N1    == [Destroy(native, dead) EXCEPT ![ContentFrame].size = CursorSize(base)]
           again == should_recurse(active_widget, refresh_mode)
           h1    == [Quiet(hist) EXCEPT
                                 !.outcome = "completed",
                                 !.at_pass_end = TRUE,
                                 !.before = hist.last,
                                 !.last = [declared |-> hist.declared,
                                           created |-> hist.created,
                                           destroyed |-> dead,
                                           start_cond |-> hist.start_cond,
                                           end_cond |-> cond,
                                           store |-> Snapshot(W1),
                                           events |-> hist.events,
                                           valid |-> TRUE]]
       IN  IF StackCorrupted(stack)
           THEN \* the corruption check of base.py 313-317 raises
                /\ cursor_stack' = stack
                /\ active_ctx' = "none"
                /\ phase' = AfterRaise(hist.entry)
                /\ pc' = <<0, 0>>
                /\ hist' = [EndCall(Quiet(hist)) EXCEPT
                                !.outcome = "aborted", !.error = "RuntimeError",
                                !.aborted = [start_store |-> hist.start_store,
                                             declared |-> hist.declared,
                                             scopes |-> <<>>]]
                /\ UNCHANGED <<widgets, native, active_widget, after_id, pending>>
           ELSE /\ widgets' = W1
                /\ native' = N1
                /\ active_widget' = ClearSignal(active_widget)
                /\ IF again
                   THEN \* the corrective pass: refresh() calls itself
                        /\ cursor_stack' = <<ImCursor>>
                        /\ active_ctx' = "self"
                        /\ phase' = "draw"
                        /\ pc' = <<FirstBlock(prog, 1, cond), 1>>
                        /\ hist' = BeginPass(h1, "corrective", W1, cond)
                        /\ UNCHANGED <<after_id, pending>>
                   ELSE /\ cursor_stack' = <<>>
                        /\ active_ctx' = "none"
                        /\ phase' = "idle"
                        /\ pc' = <<0, 0>>
                        /\ hist' = [EndCall(h1) EXCEPT !.delay =
                                       IF refresh_mode = "loop"
                                       THEN <<loop_frequency>> ELSE @]
                        /\ IF refresh_mode = "loop"
                           THEN /\ after_id' = <<FreshTimer(pending, after_id)>>
                                /\ pending' = pending \cup {FreshTimer(pending, after_id)}
                           ELSE UNCHANGED <<after_id, pending>>
    /\ UNCHANGED <<prog, cond, backend, namespaces, refresh_mode, loop_frequency, scopes, idq>>


-----------------------------------------------------------------------------
(* What happens between refreshes *)

\* one more timer may be left pending by a pass asked for now
TimerRoom == refresh_mode = "loop" => Cardinality(pending) < MaxTimers

\* ImContext(refresh_mode, loop_frequency): self.loop_frequency =
\* loop_frequency (base.py 92), and as the last statement
\* set_refresh_engine(refresh_mode, False) (base.py 115)
Construct(modes, freqs) ==
    /\ phase = "new"
    /\ \E m \in modes : \E f \in freqs :
          set_refresh_engine(m, <<PyFalse>>, f,
                             [BeginCall("init", <<>>) EXCEPT
                                 !.built = <<[refresh_mode |-> m,
                                              loop_frequency |-> f]>>])

\* the application switches the refresh policy
SetRefreshEngine(modes, lfs) ==
    /\ phase = "idle"
    /\ \E m \in modes : \E lf \in lfs :
          /\ (m = "loop" => Cardinality(pending) < MaxTimers)
          /\ set_refresh_engine(m, lf, loop_frequency, BeginCall("engine", <<>>))

\* the application calls set_refresh_engine with an integer method: the call
\* raises ValueError
SetRefreshEngineInt ==
    /\ phase = "idle"
    /\ \E n \in Frequencies : \E lf \in FrequencyArgs :
          /\ loop_frequency' = set_refresh_engine_int(n, lf, loop_frequency)
          /\ hist' = [EndCall(Quiet(hist)) EXCEPT
                          !.outcome = "raised", !.error = "ValueError",
                          !.asked = <<[method |-> n, loop_frequency |-> lf]>>]
    /\ UNCHANGED <<prog, cond, backend, widgets, native, active_widget,
                   cursor_stack, namespaces, active_ctx, refresh_mode,
                   after_id, pending, phase, pc, scopes, idq>>

\* set_active with a fault: a signal that is set is kept
Signal_first(aw, identifier) == IF aw # <<>> THEN aw ELSE <<identifier>>

\* self.active_widget = identifier (base.py 352): one slot, whatever it held
Signal(aw, identifier) == <<identifier>>

\* ImContext.set_active(identifier): the signal is set, and in callback mode
\* refresh() is called; trigger is the native widget the user acted on.  hist
\* keeps the signal that was overwritten before any pass ran with it.
set_active(identifier, trigger) ==
    IF refresh_mode = "callback"
    THEN /\ Room
         /\ EnterRefresh(Signal(active_widget, identifier),
                         BeginCall("set_active", trigger), "triggered")
    ELSE /\ active_widget' = Signal(active_widget, identifier)
         /\ hist' = [Quiet(hist) EXCEPT !.overwritten =
                        IF active_widget \notin {<<>>, <<identifier>>}
                        THEN active_widget ELSE @]
         /\ UNCHANGED <<prog, cond, backend, widgets, native, cursor_stack,
                        namespaces, active_ctx, phase, pc, scopes, idq>>

\* the user acts on a placed interactive widget: its command, variable trace
\* or event binding runs (a _Callback only with its guard on) and calls
\* set_active with the identifier it was built with
NativeEvent ==
    /\ phase = "idle"
    /\ \E k \in DOMAIN widgets :
          LET n == native[widgets[k].widget]
          IN  /\ n.command # <<>>
              /\ n.at # <<>>
              /\ widgets[k].callback # "off"
              /\ set_active(n.command, <<widgets[k].widget>>)
    /\ UNCHANGED <<refresh_mode, loop_frequency, after_id, pending>>

\* the application calls refresh() between events
UserRefresh ==
    /\ phase = "idle"
    /\ Room
    /\ TimerRoom
    /\ EnterRefresh(active_widget, BeginCall("refresh", <<>>), "plain")
    /\ UNCHANGED <<refresh_mode, loop_frequency, after_id, pending>>

\* a pending after() timer fires and calls refresh()
TimerFire ==
    /\ phase = "idle"
    /\ Room
    /\ \E t \in pending : pending' = pending \ {t}
    /\ EnterRefresh(active_widget, BeginCall("timer", <<>>), "plain")
    /\ UNCHANGED <<refresh_mode, loop_frequency, after_id>>

\* the application changes the state its draw callback branches on
ToggleCond ==
    /\ phase = "idle"
    /\ ReadsCond(prog)
    /\ cond' = ~cond
    /\ hist' = Quiet(hist)
    /\ UNCHANGED <<prog, backend, widgets, native, active_widget, cursor_stack,
                   namespaces, active_ctx, refresh_mode, loop_frequency, after_id, pending,
                   phase, pc, scopes, idq>>

\* another context starts its own refresh: ImContext.__enter__
OtherEnter ==
    /\ phase = "idle"
    /\ active_ctx = "none"
    /\ active_ctx' = "other"
    /\ hist' = Quiet(hist)
    /\ UNCHANGED <<prog, cond, backend, widgets, native, active_widget,
                   cursor_stack, namespaces, refresh_mode, loop_frequency, after_id, pending,
                   phase, pc, scopes, idq>>

\* the other context's refresh ends: ImContext.__exit__
OtherExit ==
    /\ phase = "idle"
    /\ active_ctx = "other"
    /\ active_ctx' = "none"
    /\ hist' = Quiet(hist)
    /\ UNCHANGED <<prog, cond, backend, widgets, native, active_widget,
                   cursor_stack, namespaces, refresh_mode, loop_frequency, after_id, pending,
                   phase, pc, scopes, idq>>

-----------------------------------------------------------------------------
(* The specification *)

NoIdq == [label |-> <<>>, a |-> <<>>, b |-> <<>>, id_a |-> <<>>, id_b |-> <<>>,
          done |-> FALSE]

\* the fields of an ImContext whose constructor has not yet reached its
\* last statement (base.py 186-207)
NewContext ==
    /\ cond = FALSE
    /\ widgets = <<>>
    /\ native = [h \in {ContentFrame} |-> NewNative("frame", <<>>)]
    /\ active_widget = <<>>
    /\ cursor_stack = <<>>
    /\ namespaces = <<>>
    /\ active_ctx = "none"
    /\ refresh_mode = "None"
    /\ loop_frequency = PyFalse
    /\ after_id = <<>>
    /\ pending = {}
    /\ phase = "new"
    /\ pc = <<0, 0>>
    /\ scopes = <<>>
    /\ hist = [outcome |-> "none", error |-> "None", entry |-> "none",
               kind |-> "plain", trigger |-> <<>>, passes |-> 0,
               reentrant |-> FALSE, declared |-> {}, created |-> {},
               start_store |-> <<>>, start_cond |-> FALSE,
               ret_trigger |-> "none", any_ret |-> FALSE, exited |-> <<>>,
               at_pass_end |-> FALSE, last |-> NoPass, before |-> NoPass,
               aborted |-> [start_store |-> <<>>, declared |-> {},
                            scopes |-> <<>>],
               events |-> <<>>, asked |-> <<>>, built |-> <<>>,
               delay |-> <<>>, overwritten |-> <<>>]
    /\ idq = NoIdq

Init ==
    /\ prog \in Programs
    /\ backend \in (IF NeedsTtk(prog) THEN {"tk", "ttk"} ELSE {"tk"})
    /\ NewContext

\* The context is built with the default refresh_mode, 'callback', and keeps
\* it: no timer is ever scheduled.
Next ==
    \/ Construct({"callback"}, {DefaultFrequency})
    \/ SetRefreshEngine({"callback"}, {<<>>})
    \/ NativeEvent
    \/ UserRefresh
    \/ ToggleCond
    \/ OtherEnter
    \/ OtherExit
    \/ DeclareWidget
    \/ NamespaceEnter
    \/ NamespaceExit
    \/ FrameEnter
    \/ FrameExit
    \/ NestedRefresh
    \/ DrawReturn

Spec == Init /\ [][Next]_vars

-----------------------------------------------------------------------------
(* Callbacks made of scopes: every well-nested callback of up to MaxOps    *)
(* instructions out of widgets, same_row() and `with row():`, and every    *)
(* one of up to MaxOps - 2 out of widgets, a call that raises when the     *)
(* application state says so, and `with namespace(..):`.  The widget at    *)
(* place i is a button (odd i) or a checkbox (even i) labelled by its      *)
(* place.                                                                  *)

Digits == <<"1", "2", "3", "4", "5", "6", "7", "8", "9">>

RowTokens == {"w", "s", "[", "]"}

NsTokens == {"w", "x", "{", "}"}

\* how many blocks opened by `open` the first n tokens of t leave open
Opened(t, n, open, close) ==
    Cardinality({i \in 1..n : t[i] = open})
        - Cardinality({i \in 1..n : t[i] = close})

\* every block of t is closed, and none is closed before it is opened
WellNested(t, open, close) ==
    /\ \A n \in 1..Len(t) : Opened(t, n, open, close) >= 0
    /\ Opened(t, Len(t), open, close) = 0

\* the instruction a token at place i stands for
InstrOf(tok, i) ==
    CASE tok = "w" -> Instr("widget",
                            IF i % 2 = 1 THEN "button" ELSE "checkbox",
                            <<"w", Digits[i]>>, "right", FALSE)
      [] tok = "x" -> Instr("widget", "input_text", LabelOf("input_text"),
                            "top", FALSE)
      [] tok = "s" -> Instr("same_row", "", <<>>, "", FALSE)
      [] tok = "[" -> Instr("row_enter", "", <<>>, "", FALSE)
      [] tok = "]" -> Instr("row_exit", "", <<>>, "", FALSE)
      [] tok = "{" -> NsEnter
      [] tok = "}" -> NsExit
      [] tok = "f" -> Instr("frame_call",
                            IF i % 2 = 1 THEN "frame" ELSE "labelframe",
                            <<"f", Digits[i]>>, "", FALSE)
      [] tok = "p" -> Instr("ns_push", "", OtherName, "", FALSE)
      [] tok = "q" -> Instr("ns_pop", "", <<>>, "", FALSE)

\* the callback that t spells, the call that raises and the frame that is
\* not closed under `if self.cond:`
Spelled(t) ==
    [i \in 1..Len(t) |-> [guard |-> IF t[i] \in {"x", "f"} THEN "if" ELSE "always",
                          ops |-> <<InstrOf(t[i], i)>>]]

ScopePrograms ==
    {Spelled(t) : t \in {u \in UNION {[1..n -> RowTokens] : n \in 1..MaxOps} :
                            WellNested(u, "[", "]")}}
    \cup
    {Spelled(t) : t \in {u \in UNION {[1..n -> NsTokens] : n \in 1..MaxOps - 2} :
                            WellNested(u, "{", "}")}}

InitScopes ==
    /\ prog \in ScopePrograms
    /\ backend = "tk"
    /\ NewContext

NextScopes ==
    \/ Construct({"callback"}, {DefaultFrequency})
    \/ UserRefresh
    \/ ToggleCond
    \/ DeclareWidget
    \/ SameRow
    \/ RowEnter
    \/ RowExit
    \/ NamespaceEnter
    \/ NamespaceExit
    \/ DrawReturn

SpecScopes == InitScopes /\ [][NextScopes]_vars

-----------------------------------------------------------------------------
(* Callbacks that also call namespace_push and namespace_pop themselves:   *)
(* the tokens of a namespace callback, "p" for context.namespace_push('m') *)
(* and "q" for context.namespace_pop(), with the namespace scopes well     *)
(* nested, and "f" for a frame() or labelframe() that is called without    *)
(* `with`, under `if self.cond:`.  refresh() is asked for while fewer than *)
(* MaxLeft names are left on the stack.                                    *)

MaxLeft == 2

PushTokens == {"w", "{", "}", "p", "q", "f"}

PushPrograms ==
    {Spelled(t) : t \in {u \in UNION {[1..n -> PushTokens] : n \in 1..MaxOps - 1} :
                            WellNested(u, "{", "}")}}

InitPush ==
    /\ prog \in PushPrograms
    /\ backend = "tk"
    /\ NewContext

RefreshAgain ==
    /\ Len(namespaces) < MaxLeft
    /\ UserRefresh

NextPush ==
    \/ Construct({"callback"}, {DefaultFrequency})
    \/ RefreshAgain
    \/ ToggleCond
    \/ DeclareWidget
    \/ NamespaceEnter
    \/ NamespaceExit
    \/ NamespacePush
    \/ NamespacePop
    \/ FrameCall
    \/ DrawReturn

SpecPush == InitPush /\ [][NextPush]_vars

-----------------------------------------------------------------------------
(* Callbacks made of stateful input widgets: up to MaxBlocks calls, each   *)
(* of one of the six kinds; the last may be under `if self.cond:` and then *)
(* is a combo_box or a call with a label_position that is not valid.  The  *)
(* backend is tk (which has no combobox factory) or ttk; the user acts on  *)
(* the widgets between refreshes.                                          *)

PlainInputPrograms(n) ==
    UNION {[1..m -> [guard : {"always"}, ops : {<<Call(k)>> : k \in InputKinds}]] :
              m \in 0..n}

CondInputBlocks ==
    [guard : {"if"},
     ops : {<<Call("combo_box")>>}
           \cup {<<Instr("widget", k, LabelOf(k), "top", FALSE)>> : k \in InputKinds}]

InputPrograms ==
    (PlainInputPrograms(MaxBlocks) \ {<<>>})
    \cup {Append(p, b) : p \in PlainInputPrograms(MaxBlocks - 1), b \in CondInputBlocks}

InitInputs ==
    /\ prog \in InputPrograms
    /\ backend \in {"tk", "ttk"}
    /\ NewContext

NextInputs ==
    \/ Construct({"callback"}, {DefaultFrequency})
    \/ NativeEvent
    \/ UserRefresh
    \/ ToggleCond
    \/ DeclareWidget
    \/ DrawReturn

SpecInputs == InitInputs /\ [][NextInputs]_vars

-----------------------------------------------------------------------------
(* get_identifier on its own: a label and two namespace stacks are drawn,  *)
(* and the identifier is computed under each                               *)

\* the names of the outer of two namespace scopes
OuterNames == {<<"a">>, <<":">>}

\* namespace stacks: none open, or one or two open with any names
Stacks ==
    {<<>>} \cup {<<a>> : a \in Strings}
        \cup {<<o, b>> : o \in OuterNames, b \in Strings}

\* no context is at work: a function is looked at on its own
NoContext ==
    /\ prog = <<>>
    /\ cond = FALSE
    /\ backend = "tk"
    /\ widgets = <<>>
    /\ native = [h \in {ContentFrame} |-> NewNative("frame", <<>>)]
    /\ active_widget = <<>>
    /\ cursor_stack = <<>>
    /\ namespaces = <<>>
    /\ active_ctx = "none"
    /\ refresh_mode = "None"
    /\ loop_frequency = PyFalse
    /\ after_id = <<>>
    /\ pending = {}
    /\ phase = "new"
    /\ pc = <<0, 0>>
    /\ scopes = <<>>
    /\ hist = <<>>

InitIdent ==
    /\ NoContext
    /\ idq \in [label : Strings, a : Stacks, b : Stacks,
                 id_a : {<<>>}, id_b : {<<>>}, done : {FALSE}]

\* context.get_identifier(label), with the namespace stack a and with b
GetIdentifier ==
    /\ ~idq.done
    /\ idq' = [idq EXCEPT !.id_a = get_identifier(idq.a, idq.label),
                          !.id_b = get_identifier(idq.b, idq.label),
                          !.done = TRUE]
    /\ UNCHANGED <<prog, cond, backend, widgets, native, active_widget,
                   cursor_stack, namespaces, active_ctx, refresh_mode, loop_frequency,
                   after_id, pending, phase, pc, scopes, hist>>

NextIdent == GetIdentifier

SpecIdent == InitIdent /\ [][NextIdent]_vars

-----------------------------------------------------------------------------
(* The refresh policies: a context built with either refresh_mode, whose   *)
(* application switches the policy and calls refresh() itself, and whose   *)
(* after() timers fire.  The callback declares one button, one checkbox,   *)
(* or both.                                                                *)

LoopPrograms ==
    {<<[guard |-> "always", ops |-> <<Call(k)>>]>> : k \in {"button", "checkbox"}}
    \cup {<<[guard |-> "always", ops |-> <<Call("button"), Call("checkbox")>>]>>}

InitLoop ==
    /\ prog \in LoopPrograms
    /\ backend = "tk"
    /\ NewContext

NextLoop ==
    \/ Construct({"callback", "loop"}, Frequencies)
    \/ SetRefreshEngine({"callback", "loop"}, FrequencyArgs)
    \/ SetRefreshEngineInt
    \/ NativeEvent
    \/ UserRefresh
    \/ TimerFire
    \/ DeclareWidget
    \/ DrawReturn

SpecLoop == InitLoop /\ [][NextLoop]_vars

-----------------------------------------------------------------------------
(* Loop mode next to another context: the same callbacks in a context      *)
(* built in loop mode, whose timers may fire and whose policy may be set   *)
(* again while another context is inside its own refresh.                  *)

NextBusy ==
    \/ Construct({"loop"}, Frequencies)
    \/ SetRefreshEngine({"loop"}, FrequencyArgs)
    \/ NativeEvent
    \/ TimerFire
    \/ OtherEnter
    \/ OtherExit
    \/ DeclareWidget
    \/ DrawReturn

SpecBusy == InitLoop /\ [][NextBusy]_vars

-----------------------------------------------------------------------------
(* Captions on their own: a kind, a label position and two labels are      *)
(* drawn, and the caption shown and the identifier are computed for each   *)

CaptionKinds == {"button", "checkbox", "labelframe", "progress_bar"} \cup InputKinds

\* the text a declarative function shows for a label: the text option of the
\* button, checkbutton or labelframe it creates, or the text of the label
\* widget _draw_widget_with_label / progress_bar_draw draws from label_text
Caption(kind, label, label_position) ==
    CASE kind = "button"     -> _strip_label(label)
      [] kind = "checkbox"   -> label
      [] kind = "labelframe" -> _strip_label(label)
      [] OTHER -> IF LabelFirst(label_position) THEN _strip_label(label)
                  ELSE _strip_label(_strip_label(label))

InitCaption ==
    /\ NoContext
    /\ idq \in [kind : CaptionKinds, label_position : {"left", "right"},
                 label : Strings, other : Strings,
                 caption : {<<>>}, caption_other : {<<>>},
                 id : {<<>>}, id_other : {<<>>}, done : {FALSE}]

\* the declarative function of the kind is called with each label
ShowCaption ==
    /\ ~idq.done
    /\ idq' = [idq EXCEPT
                  !.caption = Caption(idq.kind, idq.label, idq.label_position),
                  !.caption_other = Caption(idq.kind, idq.other, idq.label_position),
                  !.id = get_identifier(namespaces, idq.label),
                  !.id_other = get_identifier(namespaces, idq.other),
                  !.done = TRUE]
    /\ UNCHANGED <<prog, cond, backend, widgets, native, active_widget,
                   cursor_stack, namespaces, active_ctx, refresh_mode, loop_frequency,
                   after_id, pending, phase, pc, scopes, hist>>

NextCaption == ShowCaption

SpecCaption == InitCaption /\ [][NextCaption]_vars

-----------------------------------------------------------------------------
(* Properties *)

\* the identifiers among a set of <<identifier, handle>> pairs
Identifiers(D) == {d[1] : d \in D}

\* the native handle held under each key of a store snapshot
Handles(W) == [k \in DOMAIN W |-> W[k].widget]

\* C1.  Orphan collection: at the end of a completed pass that follows a
\* completed pass, every widget whose declarative call ran in the earlier pass
\* but not in this one has its native handle destroyed and its identifier
\* absent from the identity store.
C1_OrphanCollection ==
    (hist.at_pass_end /\ hist.before.valid) =>
        \A d \in hist.before.declared :
            d[1] \notin Identifiers(hist.last.declared) =>
                /\ d[2] \notin DOMAIN native
                /\ d[1] \notin DOMAIN widgets

\* C2.  Idempotent re-declaration: a completed pass that follows a completed
\* pass, with the application state the same from the start of the first to
\* the end of the second, creates no native widget and destroys none, and
\* leaves the same keys with the same handles in the identity store.
C2_IdempotentRedeclaration ==
    (/\ hist.at_pass_end /\ hist.before.valid
     /\ hist.before.start_cond = hist.before.end_cond
     /\ hist.before.end_cond = hist.last.start_cond
     /\ hist.last.start_cond = hist.last.end_cond)
    => /\ hist.last.created = {}
       /\ hist.last.destroyed = {}
       /\ Handles(hist.last.store) = Handles(hist.before.store)

\* C3.  Activation visibility: in the pass triggered by the native event of
\* an interactive widget, the declarative call for that widget returns a
\* truthy interaction flag.
C3_ActivationVisibility ==
    (hist.entry = "set_active" /\ hist.kind = "triggered"
     /\ hist.ret_trigger # "none")
    => hist.ret_trigger = "true"

\* C4.  Activation bounded correction: one call of set_active runs at most
\* two passes, the triggered one and one corrective one; during the
\* corrective pass the active identifier is None and no declarative call
\* returns a truthy flag.
C4_BoundedCorrection ==
    hist.entry = "set_active" =>
        /\ hist.passes <= 2
        /\ hist.kind = "corrective" =>
              /\ hist.passes = 2
              /\ active_widget = <<>>
              /\ ~hist.any_ret

\* C4: the corrective pass of a set_active call has run its draw callback,
\* after a triggered pass in which a call reported interaction and changed
\* the application state
C4_Witness ==
    /\ hist.entry = "set_active"
    /\ hist.kind = "corrective"
    /\ hist.passes = 2
    /\ phase = "draw"
    /\ AtEnd(prog, pc)
    /\ hist.last.start_cond # hist.last.end_cond
    /\ hist.declared # {}

\* C5 as stated.  Re-entrant refresh is rejected with an error: a call of
\* refresh() made while some context is marked active raises.
C5_ReentrantRaises == hist.reentrant => hist.outcome = "raised"

\* C5 as the code has it.  A call of refresh() made while some context is
\* marked active returns at once: it raises nothing, runs no pass, and leaves
\* the identity store, the native widgets, the cursor stack, the namespaces
\* and the active-context marker as they were.
C5_ReentrantSkipped ==
    [][hist'.reentrant =>
          /\ hist'.outcome = "skipped"
          /\ widgets' = widgets
          /\ native' = native
          /\ cursor_stack' = cursor_stack
          /\ namespaces' = namespaces
          /\ active_ctx' = active_ctx
          /\ hist'.passes = hist.passes]_vars

\* C5: the draw callback called refresh() itself, and the call returned
\* without an error
C5_Witness ==
    /\ hist.reentrant
    /\ hist.outcome = "skipped"
    /\ phase = "draw"
    /\ active_ctx = "self"
    /\ cursor_stack # <<>>

\* C6.  No partial commit on error: after a pass of a constructed context
\* that the draw callback aborted by raising, the identity store has the keys and the record flags
\* it had when the pass started.
C6_NoPartialCommit ==
    (phase = "idle" /\ hist.outcome = "aborted")
    => Snapshot(widgets) = hist.aborted.start_store

\* the frame scopes among the with-blocks the callback is inside of
OpenFrames == Len(SelectSeq(scopes, LAMBDA sc : sc = "frame"))

\* C7.  Cursor stack invariant: the cursor stack is empty between calls of
\* refresh(), and during the draw callback its depth is 1 plus the number of
\* open frame scopes.
C7_CursorStack ==
    /\ phase = "idle" => cursor_stack = <<>>
    /\ phase = "draw" => Len(cursor_stack) = 1 + OpenFrames

\* C8.  Frame composition: right after a frame or labelframe scope is left,
\* the frame's record is in the identity store under its identifier, placed
\* and marked drawn, its native handle has the child cursor's extent (plus 15
\* in height for a labelframe), and the parent pen stands past the frame.
C8_FrameComposition ==
    hist.exited # <<>> =>
        LET e == hist.exited[1]
        IN  /\ e.identifier \in DOMAIN widgets
            /\ widgets[e.identifier].widget = e.widget
            /\ widgets[e.identifier].position # <<>>
            /\ widgets[e.identifier].drawn
            /\ native[e.widget].at = widgets[e.identifier].position
            /\ native[e.widget].size =
                  <<e.extent[1],
                    e.extent[2] + (IF native[e.widget].type = "labelframe"
                                   THEN 15 ELSE 0)>>
            /\ cursor_stack[Len(cursor_stack)].position[1] =
                  widgets[e.identifier].position[1] + native[e.widget].size[1]

\* C9.  No widget leak: between calls, after a completed pass, every live
\* native widget a declarative call created is held by exactly one record of
\* the identity store.
C9_NoWidgetLeak ==
    (phase = "idle" /\ hist.outcome = "completed") =>
        \A h \in DOMAIN native \ {ContentFrame} :
            Cardinality({k \in DOMAIN widgets : widgets[k].widget = h}) = 1

\* C10.  Identifier uniqueness under namespacing: a label resolved under two
\* different current namespaces (either may be empty) gives two different
\* identifiers.
C10_IdentifierUniqueness ==
    (idq.done /\ current_namespace(idq.a) # current_namespace(idq.b))
    => idq.id_a # idq.id_b

\* n1::...::nk::L, the identifier of label L under the open scopes n1, ..., nk
\* as the specification words it
RECURSIVE Qualified(_, _)
Qualified(nss, val) ==
    IF nss = <<>> THEN val
    ELSE Head(nss) \o NsSep \o Qualified(Tail(nss), val)

\* every open scope has a name that is not empty
Named(nss) == \A i \in 1..Len(nss) : nss[i] # <<>>

\* C11.  Nested namespaces qualify identifiers with the whole stack: the
\* identifier of a label is the concatenation of every open scope's name and
\* the label, so two stacks that differ in the outer level only give
\* different identifiers.
C11_WholeStack ==
    (idq.done /\ Named(idq.a) /\ Named(idq.b)) =>
        /\ idq.id_a = Qualified(idq.a, idq.label)
        /\ (/\ Len(idq.a) = 2 /\ Len(idq.b) = 2
            /\ idq.a[1] # idq.b[1] /\ idq.a[2] = idq.b[2])
           => idq.id_a # idq.id_b

\* C10: a label holding the separator was resolved under a namespace that
\* ends in a colon and under one that does not
C10_Witness ==
    /\ idq.done
    /\ idq.label # <<>> /\ Head(idq.label) = ":"
    /\ current_namespace(idq.a) # <<>>
    /\ current_namespace(idq.b) # <<>>
    /\ current_namespace(idq.a) # current_namespace(idq.b)
    /\ current_namespace(idq.a)[Len(current_namespace(idq.a))] = ":"
    /\ idq.id_a # idq.id_b

-----------------------------------------------------------------------------
(* Scopes *)

\* how many of the with-blocks sc are namespace scopes
NamespaceScopes(sc) == Cardinality({i \in 1..Len(sc) : sc[i] = "ns"})

\* C12. Namespace balance: while the callback runs, the namespace stack is as
\* deep as the number of namespace scopes the callback is inside of, so each
\* scope that is left leaves the depth it was entered at; and once the
\* callback has returned or an exception has left it from inside of scopes,
\* the stack is as deep as before the callback, empty.
C12_NamespaceBalance ==
    /\ phase = "draw" => Len(namespaces) = NamespaceScopes(scopes)
    /\ phase \in {"idle", "failed"} => namespaces = <<>>

\* C12: an exception left the callback from inside a namespace scope
C12_Witness ==
    /\ phase = "idle"
    /\ hist.outcome = "aborted"
    /\ NamespaceScopes(hist.aborted.scopes) >= 1
    /\ namespaces = <<>>

-----------------------------------------------------------------------------
(* Rows.  The formulas read the events of the pass that is running: the    *)
(* placements and the calls of same_row() and of row(), in order.  All     *)
(* widgets of a callback of SpecScopes are placed on the root cursor.      *)

Events == hist.events

Places == {i \in 1..Len(Events) : Events[i].ev = "place"}

\* how many row scopes are open after the first n events
RowDepth(n) ==
    Cardinality({i \in 1..n : Events[i].ev = "row_enter"})
        - Cardinality({i \in 1..n : Events[i].ev = "row_exit"})

\* no row scope is entered or left between events i and j
NoRowScopeBetween(i, j) ==
    \A k \in (i + 1)..(j - 1) : Events[k].ev \notin {"row_enter", "row_exit"}

\* event j happens directly inside the row scope entered at event e, a scope
\* that is not nested in another and has had no scope nested in it
InRowScope(e, j) ==
    /\ e < j
    /\ Events[e].ev = "row_enter"
    /\ RowDepth(e) = 1
    /\ NoRowScopeBetween(e, j)

\* placements i and j are directly inside one row scope
InOneRowScope(i, j) == \E e \in 1..Len(Events) : InRowScope(e, i) /\ InRowScope(e, j)

\* j is the placement that follows placement i
NextPlace(i, j) ==
    /\ i \in Places /\ j \in Places /\ i < j
    /\ \A k \in (i + 1)..(j - 1) : k \notin Places

\* placement b goes right of placement a, in a's row
Joins(a, b) == b.at = <<a.at[1] + a.size[1] + Padding, a.at[2]>>

\* the height of the row placement i is in, as far as it is laid out by then
RowHeight(i) ==
    LET hs == {Events[k].size[2] :
                  k \in {p \in Places : p <= i /\ Events[p].at[2] = Events[i].at[2]}}
    IN  CHOOSE h \in hs : \A g \in hs : g <= h

\* placement b starts the row below the row of placement i
StartsRowBelow(i, b) ==
    b.at = <<Padding, Events[i].at[2] + RowHeight(i) + Padding>>

\* C13. Same-row scenario: when a widget A is placed and the widget B placed
\* next comes right after a call of same_row(), or A and B are directly inside
\* one row scope, then x(B) = x(A) + width(A) + padding and y(B) = y(A).
C13_SameRow ==
    \A i, j \in Places :
        (/\ NextPlace(i, j)
         /\ \/ Events[j - 1].ev = "same_row"
            \/ InOneRowScope(i, j))
        => Joins(Events[i], Events[j])

\* C14. Single-shot same_row: outside any row scope, the widget placed right
\* after a call of same_row() joins the current row (right of the widget
\* placed before it, or at the pen's first place when it is the first), and
\* the widget placed right after that one starts a new row: x = padding, y
\* advanced by the height of the row that was left plus padding.
C14_SingleShot ==
    \A k \in 1..Len(Events) :
        (/\ Events[k].ev = "same_row"
         /\ RowDepth(k) = 0
         /\ k + 1 \in Places)
        => /\ \A i \in Places : NextPlace(i, k + 1) => Joins(Events[i], Events[k + 1])
           /\ Places \cap 1..k = {} => Events[k + 1].at = <<2 * Padding, Padding>>
           /\ k + 2 \in Places => StartsRowBelow(k + 1, Events[k + 2])

\* C14: a widget, same_row(), a widget that joined the first, and a widget
\* after it, all outside any row scope
C14_Witness ==
    /\ phase = "draw"
    /\ \E k \in 2..Len(Events) :
          /\ Events[k].ev = "same_row"
          /\ RowDepth(k) = 0
          /\ {k - 1, k + 1, k + 2} \subseteq Places
          /\ Events[k + 1].at[2] = Events[k - 1].at[2]
          /\ Events[k + 2].at[2] > Events[k + 1].at[2]

\* C15. Scoped row: all widgets placed directly inside one row scope are
\* placed at the same y, however many they are; and the widget placed right
\* after the scope is left starts a new row.
C15_ScopedRow ==
    /\ \A i, j \in Places :
          InOneRowScope(i, j) => Events[j].at[2] = Events[i].at[2]
    /\ \A k \in 1..Len(Events) :
          (/\ Events[k].ev = "row_exit"
           /\ RowDepth(k) = 0
           /\ k + 1 \in Places)
          => /\ Events[k + 1].at[1] = Padding
             /\ \A i \in Places : NextPlace(i, k + 1) => StartsRowBelow(i, Events[k + 1])

\* C16. Row-grouping forms compose: after a call of same_row() directly
\* inside a row scope, the widgets of the scope are placed where they are
\* placed without the call: each right of the widget of the scope placed
\* before it, and the first widget of a scope entered with no same_row()
\* pending at the start of a new row.
C16_SameRowInScope ==
    \A e, k \in 1..Len(Events) : \A j \in Places :
        (/\ Events[k].ev = "same_row"
         /\ InRowScope(e, k)
         /\ k < j
         /\ InRowScope(e, j))
        => /\ \A i \in Places :
                 (NextPlace(i, j) /\ InRowScope(e, i)) => Joins(Events[i], Events[j])
           /\ (/\ Places \cap e..(j - 1) = {}
               /\ (e = 1 \/ Events[e - 1].ev # "same_row"))
              => Events[j].at[1] = Padding

-----------------------------------------------------------------------------
(* Stateful input widgets *)

\* the identifier of the record the call at pc is for
Target == get_identifier(namespaces, Here.label)

\* C17. Write suppression: a declarative call for a stateful input widget
\* that is not the active one writes the application's value into it; the
\* call leaves the activation signal as it was (set_active was not called),
\* starts no refresh pass and does not report interaction; and a call for a
\* stateful widget reports interaction only in a pass started by the user's
\* action on that widget, so neither in the pass of the write nor, because of
\* the write, in the next.
C17_WriteSuppression ==
    [][(/\ Drawing("widget")
        /\ HasCallback(Here.kind)
        /\ phase' = "draw")
       => /\ active_widget # <<Target>>
             => /\ active_widget' = active_widget
                /\ hist'.passes = hist.passes
                /\ ~widgets'[Target].active
          /\ widgets'[Target].active
             => /\ hist.kind = "triggered"
                /\ hist.trigger = <<widgets'[Target].widget>>]_vars

\* C17: the user acted on a stateful widget, and the pass after the one that
\* reported it has declared the widget again, writing the application's value
\* into it, without a new signal and without reporting it
C17_Witness ==
    /\ phase = "draw"
    /\ hist.kind = "corrective"
    /\ active_widget = <<>>
    /\ \E k \in DOMAIN widgets :
          /\ widgets[k].callback = "on"
          /\ hist.trigger = <<widgets[k].widget>>
          /\ <<k, widgets[k].widget>> \in hist.declared
          /\ ~widgets[k].active

-----------------------------------------------------------------------------
(* Captions *)

\* c is the label l up to, but excluding, its first '#'
UpToSeparator(c, l) ==
    /\ Len(c) <= Len(l)
    /\ c = SubSeq(l, 1, Len(c))
    /\ \A i \in 1..Len(c) : c[i] # "#"
    /\ Len(c) < Len(l) => l[Len(c) + 1] = "#"

\* C18. Label separator: whatever the kind, the caption shown is the label up
\* to but excluding the first '#' and the identifier is the full label; so
\* two labels that differ only after the '#' give the same caption and
\* different identifiers.
C18_LabelSeparator ==
    idq.done =>
        /\ UpToSeparator(idq.caption, idq.label)
        /\ idq.id = idq.label
        /\ (/\ idq.label # idq.other
            /\ \E c \in Strings : UpToSeparator(c, idq.label) /\ UpToSeparator(c, idq.other))
           => /\ idq.caption = idq.caption_other
              /\ idq.id # idq.id_other

-----------------------------------------------------------------------------
(* Refresh policies *)

\* C19. At most one scheduled refresh: whatever calls of set_refresh_engine,
\* refresh() and set_active and whatever timer firings came before, at most
\* one timer-driven refresh is pending for the context.
C19_AtMostOnePending == Cardinality(pending) <= 1

\* C20. Callback mode has no background timer: while the refresh mode is
\* 'callback' no timer-driven refresh is pending and no pass was started by
\* a timer.
C20_NoTimerInCallbackMode ==
    refresh_mode = "callback" =>
        /\ pending = {}
        /\ hist.entry # "timer"

\* C21. Integer refresh method: a call set_refresh_engine(n) with an integer
\* n and no loop_frequency does not raise, and leaves the context in 'loop'
\* mode with loop_frequency n.
C21_IntegerMethod ==
    (hist.asked # <<>> /\ hist.asked[1].loop_frequency = <<>>)
    => /\ hist.outcome # "raised"
       /\ refresh_mode = "loop"
       /\ loop_frequency = hist.asked[1].method

\* C22. Constructor loop frequency: when the constructor of a context built
\* with refresh_mode 'loop' and loop_frequency f returns, the loop_frequency
\* of the context is f and the next timer-driven refresh is scheduled with
\* delay f.
C22_ConstructorFrequency ==
    [][(/\ phase = "draw" /\ phase' = "idle"
        /\ hist.entry = "init"
        /\ hist.built[1].refresh_mode = "loop"
        /\ hist'.outcome = "completed")
       => /\ loop_frequency' = hist.built[1].loop_frequency
          /\ hist'.delay = <<hist.built[1].loop_frequency>>]_vars

-----------------------------------------------------------------------------
(* Errors of declarative calls *)

\* C23. Unknown widget kind: a declarative call that finds no record and
\* needs a widget kind for which the backend installed no factory raises
\* RuntimeError at that call: the pass ends there, and the identity store
\* and the native widgets are as the call found them.
C23_UnknownKind ==
    [][(/\ Drawing("widget")
        /\ FactoryOf(Here.kind) \notin install_widgets(backend)
        /\ Target \notin DOMAIN widgets)
       => /\ phase' # "draw"
          /\ hist'.outcome = "aborted"
          /\ hist'.error = "RuntimeError"
          /\ widgets' = widgets
          /\ native' = native]_vars

\* C23: on the tk backend a pass of a living context was ended by the
\* RuntimeError of a combo_box call, and the store has no record for it
C23_Witness ==
    /\ phase = "idle"
    /\ backend = "tk"
    /\ cond
    /\ hist.outcome = "aborted"
    /\ hist.error = "RuntimeError"
    /\ prog[Len(prog)].ops[1].kind = "combo_box"
    /\ LabelOf("combo_box") \notin DOMAIN widgets

\* C24. Eager option validation: a call of a function that takes a
\* label_position, with a value that is not valid, raises ValueError, and the
\* identity store and the native widgets are as the call found them.
C24_EagerValidation ==
    [][(/\ Drawing("widget")
        /\ Here.kind \in InputKinds
        /\ Here.label_position \notin ValidLabelPositions)
       => /\ hist'.outcome = "aborted"
          /\ hist'.error = "ValueError"
          /\ widgets' = widgets
          /\ native' = native]_vars

-----------------------------------------------------------------------------
(* The activation signal *)

\* C25. Signal consumption: when a refresh() call that ran a pass returns
\* normally, in either refresh mode, the activation signal is None, and an
\* activation is visible to the declarative calls of exactly one pass: a
\* signal that is set stays as it is until the end of a pass that ran with
\* it, and is None from then on.
C25_SignalConsumption ==
    [][/\ (phase = "draw" /\ phase' = "idle" /\ hist'.outcome = "completed")
              => active_widget' = <<>>
       /\ (phase = "draw" /\ hist.kind = "corrective") => active_widget = <<>>
       /\ (active_widget # <<>> /\ active_widget' # active_widget)
              => (phase = "draw" /\ active_widget' = <<>>)]_vars

\* C26. Corrective pass keeps records: a widget first declared during the
\* activation-triggered pass was created and registered in the identity
\* store in that pass, and when the corrective pass has declared it again it
\* has the same native handle and nothing was created for it.
C26_CorrectiveKeepsRecords ==
    (phase = "draw" /\ hist.kind = "corrective") =>
        \A d \in hist.last.declared :
            d[2] \in hist.last.created =>
                /\ d[1] \in DOMAIN hist.last.store
                /\ hist.last.store[d[1]].widget = d[2]
                /\ \A e \in hist.declared :
                      e[1] = d[1] => (e[2] = d[2] /\ e[2] \notin hist.created)

-----------------------------------------------------------------------------
(* Placement *)

\* the pen of a fresh cursor: at (padding, padding), row height 0
FreshPen == [x |-> Padding, y |-> Padding, row_height |-> 0]

\* where the recurrence puts a widget that finds the pen p, in stay-in-row
\* mode or not
PlaceOf(p, stayed) ==
    IF stayed THEN <<p.x + Padding, p.y>>
    ELSE <<Padding, p.y + p.row_height + Padding>>

\* the pen after a widget of the given size was placed at `at`
PenPast(p, at, size, stayed) ==
    [x |-> at[1] + size[1], y |-> at[2],
     row_height |-> Max(IF stayed THEN p.row_height ELSE 0, size[2])]

RECURSIVE PenAfter(_, _)
\* the pen the recurrence gives after the first n of the events E
PenAfter(E, n) ==
    IF n = 0 THEN FreshPen
    ELSE IF E[n].ev # "place" THEN PenAfter(E, n - 1)
    ELSE PenPast(PenAfter(E, n - 1),
                 PlaceOf(PenAfter(E, n - 1), E[n].stayed),
                 E[n].size, E[n].stayed)

\* the placement sequence of the events E: which record was placed where
PlacementSequence(E) ==
    [n \in {m \in 1..Len(E) : E[m].ev = "place"} |-> <<E[n].identifier, E[n].at>>]

\* C27. Placement recurrence: on a fresh cursor, every widget of a pass is
\* placed at x = padding, y = pen_y + row_height + padding when the cursor is
\* not in stay-in-row mode (the row height then starts again from 0), and at
\* x = pen_x + padding, y = pen_y when it is; afterwards row_height =
\* max(row_height, h) and pen_x = x + w.  A pass that ends with the
\* application state of the completed pass before it has placed the same
\* widgets at the same places.
C27_PlacementRecurrence ==
    /\ \A n \in Places :
          Events[n].at = PlaceOf(PenAfter(Events, n - 1), Events[n].stayed)
    /\ (/\ phase = "draw" /\ AtEnd(prog, pc)
        /\ hist.last.valid
        /\ hist.last.start_cond = hist.start_cond
        /\ hist.last.end_cond = cond)
       => PlacementSequence(Events) = PlacementSequence(hist.last.events)

\* C27: the second pass of a callback has placed two widgets of different
\* heights in one row, the lower one last, a widget in a new row below them
\* and a widget in a new row below that one
C27_Witness ==
    /\ phase = "draw" /\ AtEnd(prog, pc)
    /\ hist.last.valid
    /\ \E i, j, k, l \in Places :
          /\ NextPlace(i, j) /\ NextPlace(j, k) /\ NextPlace(k, l)
          /\ Events[j].stayed /\ ~Events[k].stayed /\ ~Events[l].stayed
          /\ Events[i].size[2] > Events[j].size[2]
          /\ Events[l].at[2] = Events[k].at[2] + Events[k].size[2] + Padding

\* placement n is the last one of its record so far in the pass
LastOfRecord(n) ==
    \A m \in Places : m > n => Events[m].identifier # Events[n].identifier

\* C28. Redundant placement is skipped: add_widget issues the native place
\* command for a record if and only if the pen's position differs from the
\* record's last-known position (always on the first placement); when the
\* position is unchanged, the record's position and the native widget's
\* placement are as they were.
C28_RedundantPlacementSkipped ==
    \A n \in Places :
        /\ Events[n].issued <=> (Events[n].was # Events[n].at)
        /\ Events[n].was = <<>> => Events[n].issued
        /\ (~Events[n].issued /\ LastOfRecord(n)
            /\ Events[n].identifier \in DOMAIN widgets)
           => /\ widgets[Events[n].identifier].position = Events[n].was
              /\ native[widgets[Events[n].identifier].widget].at = Events[n].was

\* C28: one pass has placed a record of an earlier pass where it already
\* was, without a place command, and moved another to a new position
C28_Witness ==
    /\ phase = "draw"
    /\ \E m, n \in Places :
          /\ ~Events[m].issued
          /\ Events[n].issued /\ Events[n].was # <<>>

-----------------------------------------------------------------------------
(* The namespace stack of callbacks that push and pop it themselves *)

\* C29. Undetected namespace imbalance is an error: a refresh whose draw
\* callback returns with the namespace stack deeper than it found it raises
\* instead of completing, so that after every refresh that completed no
\* leftover prefix is on the stack for the next one.
C29_ImbalanceRaises ==
    (phase = "idle" /\ hist.outcome = "completed") => namespaces = <<>>

\* C30. Namespace mismatch detection: when a namespace scope exits and the
\* value popped from the namespace stack is not the name the scope pushed,
\* RuntimeError is raised, and the value is off the stack.
C30_MismatchDetected ==
    [][(/\ Drawing("ns_exit")
        /\ namespaces # <<>>
        /\ current_namespace(namespaces) # Here.label)
       => /\ hist'.outcome = "aborted"
          /\ hist'.error = "RuntimeError"
          /\ Len(namespaces') < Len(namespaces)]_vars

\* C30: a pass was ended by the RuntimeError of a namespace scope's exit that
\* found a name the callback had pushed itself
C30_Witness ==
    /\ phase \in {"idle", "failed"}
    /\ hist.outcome = "aborted"
    /\ hist.error = "RuntimeError"
    /\ hist.aborted.scopes = <<>>
    /\ \E b \in 2..Len(prog) :
          /\ prog[b].ops[1].op = "ns_exit"
          /\ prog[b - 1].ops[1].op = "ns_push"

-----------------------------------------------------------------------------
(* Frames that are not closed *)

\* C31. Unclosed frame scope is fatal: when the draw callback returns while
\* the cursor of a frame or labelframe it called is still on the cursor
\* stack, refresh() raises RuntimeError in that call, before the sweep: the
\* identity store and the native widgets are as the callback left them.
C31_UnclosedFrameFatal ==
    [][(/\ phase = "draw" /\ AtEnd(prog, pc)
        /\ Len(cursor_stack) > 1
        /\ cursor_stack[Len(cursor_stack)].frame # <<>>)
       => /\ phase' # "draw"
          /\ hist'.outcome = "aborted"
          /\ hist'.error = "RuntimeError"
          /\ widgets' = widgets
          /\ native' = native]_vars

\* C31: a refresh of a living context was ended by the RuntimeError of the
\* stack check after a callback that left a frame's cursor on the stack, and
\* a record the callback had not declared is still in the identity store
C31_Witness ==
    /\ phase = "idle"
    /\ hist.outcome = "aborted"
    /\ hist.error = "RuntimeError"
    /\ \A b \in 1..Len(prog) : prog[b].ops[1].op # "ns_exit"
    /\ \E b \in 1..Len(prog) : prog[b].ops[1].op = "frame_call"
    /\ \E k \in DOMAIN widgets : ~widgets[k].drawn

\* C32. Single-slot signal in loop mode: set_active starts no refresh, and
\* when it is called for W1 and then for W2 before the next refresh, the
\* signal holds W2 only: in the pass that follows, a declarative call reports
\* interaction exactly when the signal holds its identifier, so W2's call
\* reports and W1's activation is reported in no pass.
C32_SingleSlot ==
    [][/\ (refresh_mode = "loop" /\ phase = "idle"
           /\ active_widget' \notin {active_widget, <<>>})
          => (phase' = "idle" /\ hist'.passes = hist.passes)
       /\ (refresh_mode = "loop" /\ Drawing("widget") /\ phase' = "draw")
          => /\ widgets'[Target].active <=> (active_widget = <<Target>>)
             /\ hist.overwritten # <<>> => hist.overwritten # active_widget]_vars

\* C32: in loop mode the signal was set for one widget and then for another
\* before a refresh; the pass of that refresh has declared both, and only the
\* second has reported interaction
C32_Witness ==
    /\ refresh_mode = "loop"
    /\ phase = "draw" /\ AtEnd(prog, pc)
    /\ hist.overwritten # <<>>
    /\ hist.overwritten[1] \in DOMAIN widgets
    /\ ~widgets[hist.overwritten[1]].active
    /\ <<hist.overwritten[1], widgets[hist.overwritten[1]].widget>> \in hist.declared
    /\ \E k \in DOMAIN widgets :
          /\ widgets[k].active
          /\ <<k, widgets[k].widget>> \in hist.declared

\* C33. Guard flag restored: after every declarative call for a stateful
\* input widget that returns normally the widget's change-callback guard is
\* on, and no record has its guard off once the call is over: the guard is
\* off only inside the call, around the write.
C33_GuardRestored ==
    [][(/\ Drawing("widget")
        /\ HasCallback(Here.kind)
        /\ phase' = "draw")
       => /\ widgets'[Target].callback = "on"
          /\ \A k \in DOMAIN widgets' : widgets'[k].callback # "off"]_vars

\* C33: a pass has declared a stateful widget that an earlier pass created,
\* writing the application's value into it, and the user can act on it
C33_Witness ==
    /\ phase = "draw" /\ AtEnd(prog, pc)
    /\ hist.kind = "plain"
    /\ \E k \in DOMAIN widgets :
          /\ k \in DOMAIN hist.start_store
          /\ <<k, widgets[k].widget>> \in hist.declared
          /\ active_widget # <<k>>
          /\ widgets[k].callback = "on"

-----------------------------------------------------------------------------
(* Loop mode over time *)

\* C34. Loop mode keeps refreshing: while the refresh mode is 'loop', after
\* any call of refresh() has returned, also one that returned at once
\* because a context was active when the timer fired, a timer-driven refresh
\* is pending.
C34_LoopKeepsRefreshing ==
    (/\ refresh_mode = "loop"
     /\ phase = "idle"
     /\ hist.outcome \in {"completed", "skipped"})
    => pending # {}

-----------------------------------------------------------------------------
(* Row scopes inside row scopes *)

\* placement j is directly inside the row scope entered at event e, which is
\* nested in no other: every scope entered between e and j was left again
DirectlyInScope(e, j) ==
    /\ e < j
    /\ Events[e].ev = "row_enter"
    /\ RowDepth(e) = 1
    /\ RowDepth(j) = 1
    /\ \A k \in e..j : RowDepth(k) >= 1

\* C35. Row scope with composite widgets: a row scope opened inside an
\* enclosing row scope (by `with row():` or by a label-bearing widget) raises
\* no error, and the widgets declared in the enclosing scope, before and
\* after it, are placed on the enclosing scope's row.
C35_NestedRowScope ==
    /\ hist.error # "TypeError"
    /\ \A e \in 1..Len(Events) : \A i, j \in Places :
          (/\ DirectlyInScope(e, i) /\ DirectlyInScope(e, j)
           /\ \E k \in i..j : Events[k].ev = "row_exit")
          => Events[j].at[2] = Events[i].at[2]

-----------------------------------------------------------------------------
(* After a draw callback that raised *)

\* C36. Recovery after a failed draw: after a refresh() that an exception
\* raised inside the draw callback has ended, the active-context marker is
\* cleared and the cursor stack is empty, and no later refresh() raises the
\* cursor-stack corruption error on entry.
C36_Recovery ==
    [][/\ (phase = "draw" /\ phase' = "idle" /\ hist'.outcome = "aborted")
          => (active_ctx' = "none" /\ cursor_stack' = <<>>)
       /\ hist'.outcome # "raised"]_vars

-----------------------------------------------------------------------------
(* The identity store between refreshes *)

\* C37. Quiescent store invariant: whenever no refresh is executing, after
\* any number of refreshes that all completed, every record of the identity
\* store has drawn = False and new = False and is stored under the key equal
\* to its own identifier.
C37_QuiescentStore ==
    (phase = "idle" /\ hist.error = "None") =>
        \A k \in DOMAIN widgets :
            /\ ~widgets[k].drawn
            /\ ~widgets[k].new
            /\ widgets[k].identifier = k

\* C37: no refresh has raised, and the last one completed after evicting a
\* record and keeping others
C37_Witness ==
    /\ phase = "idle"
    /\ hist.error = "None"
    /\ hist.outcome = "completed"
    /\ hist.last.destroyed # {}
    /\ DOMAIN widgets # {}

-----------------------------------------------------------------------------
(* The geometry of one cursor's placements *)

\* the rectangles of placements a and b share a point of their interiors
Overlap(a, b) ==
    /\ a.at[1] < b.at[1] + b.size[1] /\ b.at[1] < a.at[1] + a.size[1]
    /\ a.at[2] < b.at[2] + b.size[2] /\ b.at[2] < a.at[2] + a.size[2]

\* C38. No overlap within a cursor: of the widgets one cursor places in a
\* pass, under any pattern of same_row() calls and row scopes, no two
\* rectangles (x, y, width, height) overlap: a widget placed later in the row
\* of an earlier one starts at least padding right of it, and a widget placed
\* later in another row starts at least padding below it, so below the
\* tallest widget of every earlier row.
C38_NoOverlap ==
    \A i, j \in Places :
        (i < j /\ Events[i].depth = Events[j].depth) =>
            /\ ~Overlap(Events[i], Events[j])
            /\ IF Events[j].at[2] = Events[i].at[2]
               THEN Events[j].at[1] >= Events[i].at[1] + Events[i].size[1] + Padding
               ELSE Events[j].at[2] >= Events[i].at[2] + Events[i].size[2] + Padding

\* C38: a pass has placed two widgets in one row and a third one in a later
\* row, with a same_row() call and a row scope among its calls
C38_Witness ==
    /\ \E i, j, k \in Places :
          /\ i < j /\ j < k
          /\ Events[i].at[2] = Events[j].at[2]
          /\ Events[k].at[2] > Events[j].at[2]
          /\ Events[i].size[2] # Events[j].size[2]
    /\ \E e \in 1..Len(Events) : Events[e].ev = "same_row"
    /\ \E e \in 1..Len(Events) : Events[e].ev = "row_enter"

-----------------------------------------------------------------------------
(* The content extent *)

\* the placements the root cursor made in the pass completed last
RootPlaces ==
    {i \in 1..Len(hist.last.events) :
        hist.last.events[i].ev = "place" /\ hist.last.events[i].depth = 1}

\* C39. Content extent covers every widget: the size of the root cursor at
\* the end of a pass, which the content container is resized to, is at least
\* x + width + padding and y + height + padding for every widget the root
\* cursor placed in that pass.
C39_ExtentCovers ==
    hist.last.valid =>
        \A i \in RootPlaces :
            LET e == hist.last.events[i]
            IN  /\ native[ContentFrame].size[1] >= e.at[1] + e.size[1] + Padding
                /\ native[ContentFrame].size[2] >= e.at[2] + e.size[2] + Padding

\* C39: a pass completed whose last row holds a taller widget before a
\* shorter one, after an earlier row; the taller one reaches the extent
C39_Witness ==
    /\ hist.last.valid
    /\ \E i, j, k \in RootPlaces :
          LET E == hist.last.events
          IN  /\ i < j /\ j < k
              /\ E[i].at[2] < E[j].at[2]
              /\ E[j].at[2] = E[k].at[2]
              /\ E[j].size[2] > E[k].size[2]
              /\ native[ContentFrame].size[2] = E[j].at[2] + E[j].size[2] + Padding

=============================================================================
